---------------------------- MODULE Spec2Model ----------------------------
(***************************************************************************)
(* A model of TI_TE_wish.py: reconstruction of MRI images from raw echoes  *)
(* (get_images), the inversion-recovery reordering (reorder_forT1IR), the  *)
(* per-pixel parallel map fitting (calculate_maps), the synthesis of       *)
(* theoretical images (theoret_MRI) and the top-level dispatch (main).     *)
(*                                                                         *)
(* Arrays keep the source's 0-based indices: a 2-D array is a record       *)
(* [shape |-> <<rows, cols>>, at |-> [<<i, j>> |-> value]], a stack of     *)
(* arrays is a function over 0 .. n-1.                                     *)
(***************************************************************************)
EXTENDS Integers, Sequences, FiniteSets, TLC

VARIABLES
    pc,                \* position of the function being executed
    raised,            \* the exception that ended the call, "none" otherwise
    \* ---- get_images
    echoes,            \* the raw echo array (rows x row width)
    number_of_images,  \* the image count passed to get_images
    kspaces,           \* the stack of k-spaces
    images,            \* the stack of images
    kspace_no,         \* loop variable of both loops of get_images
    fft2_calls,        \* number of calls of np.fft.fft2 made so far
    \* ---- reorder_forT1IR
    nI,                \* the number of inversion times passed in
    grid,              \* the 4-D view of the stack: (axis 0, axis 1) -> image
    \* ---- calculate_maps
    T_train,           \* the relaxation-time train
    function,          \* "T1_function" or "T2_function"
    unfittable,        \* pixels <<run, row, column>> on which curve_fit raises
    cm_i,              \* loop variable i: the run
    cm_k,              \* loop variable k: the row
    slice1,            \* the images of the current run
    futures,           \* column -> the state of its task and what it returned
    completed,         \* the columns in the order their tasks completed
    T_list, Molist, Clist,     \* the rows fitted so far in the current run
    T_maps, Momaps, Cmaps,     \* the maps of the runs fitted so far
    executor,          \* the loky worker pool: "none", "alive", "shutdown"
    \* ---- theoret_MRI
    T_wish,            \* the requested times
    TheoretImgs,       \* the returned list: references to image objects
    heap,              \* object reference -> the array the object holds
    files,             \* the output folder: file name -> what was saved
    tm_n,              \* number of iterations of the double loop done
    \* ---- main
    params,            \* the procpar entries main reads: layout and ir
    ntraces,           \* params['ntraces']
    glob_var,          \* the retention level
    stages,            \* the stages called so far, in call order
    dispatched,        \* number of acquisition-type decisions taken
    printed,           \* the messages printed so far
    result             \* what main returned

giVars == <<echoes, number_of_images, kspaces, images, kspace_no, fft2_calls>>
roVars == <<nI, grid>>
cmIn == <<T_train, function, unfittable>>
cmLoop == <<cm_i, cm_k, slice1>>
cmLists == <<T_list, Molist, Clist>>
cmMaps == <<T_maps, Momaps, Cmaps>>
cmVars == <<cmIn, cmLoop, futures, completed, cmLists, cmMaps, executor>>
tmVars == <<T_wish, TheoretImgs, heap, files, tm_n>>
mnVars == <<params, ntraces, glob_var, stages, dispatched, printed, result>>
vars == <<pc, raised, giVars, roVars, cmVars, tmVars, mnVars>>

\* ------------------------------------------------------------------ bounds
MaxRows == 4
MaxImages == 3
MaxWidth == 2
MaxStack == 6
MaxTI == 3
MaxRuns == 2
MaxTrain == 2
MaxMapSide == 2
MaxUnfittable == 1
MaxPixels == 8
MaxWish == 2
MaxTraces == 2

\* ------------------------------------------------------------ array basics
Range(n) == 0 .. (n - 1)

Idx(shape) == Range(shape[1]) \X Range(shape[2])

\* np.empty(shape): an array of the shape whose cells hold nothing yet.
Empty2(shape) == [shape |-> shape, at |-> [p \in Idx(shape) |-> "uninit"]]

Array2(shape, f(_, _)) ==
    [shape |-> shape, at |-> [p \in Idx(shape) |-> f(p[1], p[2])]]

\* A Python list is a function over 0 .. n-1; list.append(v):
ListAppend(l, v) ==
    [x \in Range(Cardinality(DOMAIN l) + 1) |->
        IF x < Cardinality(DOMAIN l) THEN l[x] ELSE v]

\* Ceiling of a / b for a >= 0, b >= 1.
CeilDiv(a, b) == (a + b - 1) \div b

\* Number of indices a slice start:stop:step selects (step >= 1).
SliceLen(start, stop, step) ==
    IF start >= stop THEN 0 ELSE CeilDiv(stop - start, step)

\* Variant of StridedRows: the rows taken as contiguous blocks, not strided.
StridedRowsBlocked(arr, start, step) ==
    LET m == SliceLen(start, arr.shape[1], step)
    IN  Array2(<<m, arr.shape[2]>>,
               LAMBDA r, c : arr.at[<<start * m + r, c>>])

\* echoes[start : echoes.shape[0] : step, :]
StridedRows(arr, start, step) ==
    LET m == SliceLen(start, arr.shape[1], step)
    IN  Array2(<<m, arr.shape[2]>>,
               LAMBDA r, c : arr.at[<<start + step * r, c>>])

\* numpy's rule for target[...] = source with 2-D operands: every axis of
\* the source either has the target's length or length 1.
Broadcastable(src, tgt) ==
    /\ src[1] = tgt[1] \/ src[1] = 1
    /\ src[2] = tgt[2] \/ src[2] = 1

\* The array a target of shape tgt holds after target[...] = source.
BroadcastTo(source, tgt) ==
    Array2(tgt, LAMBDA i, j :
        source.at[<< IF source.shape[1] = 1 THEN 0 ELSE i,
                     IF source.shape[2] = 1 THEN 0 ELSE j >>])

\* ------------------------------------------------------------- get_images
\* np.fft.fft2 of k-space number k: coefficient (u, v) of its 2-D DFT.  The
\* transform itself is left uninterpreted; only the index bookkeeping that
\* follows it is computed.
Fft2(k, kspace) ==
    Array2(kspace.shape, LAMBDA u, v : [dft |-> k, u |-> u, v |-> v])

\* np.fft.fftshift: every axis rolled by half its length.
FftShift(a) ==
    Array2(a.shape, LAMBDA i, j :
        a.at[<< (i - (a.shape[1] \div 2)) % a.shape[1],
                (j - (a.shape[2] \div 2)) % a.shape[2] >>])

\* np.flip(a, (1, 0)): both axes reversed.
Flip(a) ==
    Array2(a.shape, LAMBDA i, j :
        a.at[<< a.shape[1] - 1 - i, a.shape[2] - 1 - j >>])

Transpose(a) ==
    Array2(<<a.shape[2], a.shape[1]>>, LAMBDA i, j : a.at[<<j, i>>])

\* abs(): the magnitude of every cell.
Abs(a) == Array2(a.shape, LAMBDA i, j : [abs |-> a.at[<<i, j>>]])

\* An echo array of the given shape; cell (r, c) is the sample of row r,
\* column c, so that every row is recognisable.
EchoArray(rows, width) ==
    Array2(<<rows, width>>, LAMBDA r, c : [row |-> r, col |-> c])

\* The variables of a function that is not part of a specification keep
\* these values throughout.
ROIdle == nI = 0 /\ grid = <<>>

CMIdle ==
    /\ T_train = <<>>
    /\ function = "none"
    /\ unfittable = {}
    /\ cm_i = 0
    /\ cm_k = 0
    /\ slice1 = <<>>
    /\ futures = <<>>
    /\ completed = <<>>
    /\ T_list = <<>> /\ Molist = <<>> /\ Clist = <<>>
    /\ T_maps = <<>> /\ Momaps = <<>> /\ Cmaps = <<>>
    /\ executor = "none"

TMIdle ==
    /\ T_wish = <<>>
    /\ TheoretImgs = <<>>
    /\ heap = <<>>
    /\ files = <<>>
    /\ tm_n = 0

MNIdle ==
    /\ params = <<>>
    /\ ntraces = 0
    /\ glob_var = 0
    /\ stages = <<>>
    /\ dispatched = 0
    /\ printed = <<>>
    /\ result = "none"

GIInit ==
    /\ ROIdle
    /\ CMIdle
    /\ TMIdle
    /\ MNIdle
    /\ pc = "get_images"
    /\ raised = "none"
    /\ \E rows \in 0 .. MaxRows, width \in 1 .. MaxWidth :
           echoes = EchoArray(rows, width)
    /\ number_of_images \in 0 .. MaxImages
    /\ kspaces = <<>>
    /\ images = <<>>
    /\ kspace_no = 0
    /\ fft2_calls = 0

\* line 44-45: kspaces = np.empty((number_of_images, int(rows / n), width))
AllocKspaces ==
    /\ pc = "get_images"
    /\ IF number_of_images = 0
       THEN /\ pc' = "raised"
            /\ raised' = "ZeroDivisionError"
            /\ UNCHANGED <<giVars, roVars, cmVars, tmVars, mnVars>>
       ELSE /\ kspaces' = [k \in Range(number_of_images) |->
                   Empty2(<<echoes.shape[1] \div number_of_images,
                            echoes.shape[2]>>)]
            /\ kspace_no' = 0
            /\ pc' = "partition"
            /\ UNCHANGED <<raised, echoes, number_of_images, images, fft2_calls, roVars, cmVars, tmVars, mnVars>>

\* line 47-49: one iteration of the partitioning loop
PartitionStep ==
    /\ pc = "partition"
    /\ kspace_no < number_of_images
    /\ LET src == StridedRows(echoes, kspace_no, number_of_images)
           tgt == kspaces[kspace_no].shape
       IN  IF Broadcastable(src.shape, tgt)
           THEN /\ kspaces' = [kspaces EXCEPT ![kspace_no] = BroadcastTo(src, tgt)]
                /\ kspace_no' = kspace_no + 1
                /\ UNCHANGED <<pc, raised>>
           ELSE /\ pc' = "raised"
                /\ raised' = "ValueError"
                /\ UNCHANGED <<kspaces, kspace_no>>
    /\ UNCHANGED <<echoes, number_of_images, images, fft2_calls, roVars, cmVars, tmVars, mnVars>>

\* line 52: images = np.empty(kspaces.shape)
AllocImages ==
    /\ pc = "partition"
    /\ kspace_no = number_of_images
    /\ images' = [k \in Range(number_of_images) |-> Empty2(kspaces[k].shape)]
    /\ kspace_no' = 0
    /\ pc' = "reconstruct"
    /\ UNCHANGED <<raised, echoes, number_of_images, kspaces, fft2_calls, roVars, cmVars, tmVars, mnVars>>

\* line 54-58: one iteration of the reconstruction loop.  np.fft.fft2 rejects
\* an axis of length 0; the assignment into images[kspace_no] broadcasts.
ReconstructStep ==
    /\ pc = "reconstruct"
    /\ kspace_no < number_of_images
    /\ fft2_calls' = fft2_calls + 1
    /\ LET ks == kspaces[kspace_no]
       IN  IF ks.shape[1] = 0 \/ ks.shape[2] = 0
           THEN /\ pc' = "raised"
                /\ raised' = "ValueError"
                /\ UNCHANGED <<images, kspace_no>>
           ELSE LET ft == Abs(Transpose(Flip(FftShift(Fft2(kspace_no, ks)))))
                    tgt == images[kspace_no].shape
                IN  IF Broadcastable(ft.shape, tgt)
                    THEN /\ images' = [images EXCEPT
                                          ![kspace_no] = BroadcastTo(ft, tgt)]
                         /\ kspace_no' = kspace_no + 1
                         /\ UNCHANGED <<pc, raised>>
                    ELSE /\ pc' = "raised"
                         /\ raised' = "ValueError"
                         /\ UNCHANGED <<images, kspace_no>>
    /\ UNCHANGED <<echoes, number_of_images, kspaces, roVars, cmVars, tmVars, mnVars>>

\* line 60: return images
ReturnImages ==
    /\ pc = "reconstruct"
    /\ kspace_no = number_of_images
    /\ pc' = "returned"
    /\ UNCHANGED <<raised, giVars, roVars, cmVars, tmVars, mnVars>>

GINext ==
    \/ AllocKspaces
    \/ PartitionStep
    \/ AllocImages
    \/ ReconstructStep
    \/ ReturnImages

SpecGetImages == GIInit /\ [][GINext]_vars

\* -------------------------------------------------- get_images: properties
Rows == echoes.shape[1]
Width == echoes.shape[2]

DividesRows == number_of_images >= 1 /\ Rows % number_of_images = 0

\* The partitioning loop of get_images has run to its end.
PartitionFinished ==
    \/ pc = "partition" /\ kspace_no = number_of_images
    \/ pc \in {"reconstruct", "returned"}
    \/ pc = "raised" /\ fft2_calls > 0

\* C1: when the image count divides the row count, the partitioning step
\* never raises and leaves exactly number_of_images k-spaces of
\* Rows/number_of_images rows of the original width; row n of k-space k is raw
\* row k + number_of_images*n, and every raw row is in exactly one k-space.
C1_Partition ==
    DividesRows =>
        /\ ~(pc = "raised" /\ fft2_calls = 0)
        /\ PartitionFinished =>
            /\ DOMAIN kspaces = Range(number_of_images)
            /\ \A k \in Range(number_of_images) :
                /\ kspaces[k].shape = <<Rows \div number_of_images, Width>>
                /\ \A n \in Range(Rows \div number_of_images), c \in Range(Width) :
                       kspaces[k].at[<<n, c>>] =
                           echoes.at[<<k + number_of_images * n, c>>]
            /\ \A r \in Range(Rows) :
                   Cardinality({p \in Range(number_of_images)
                                       \X Range(Rows \div number_of_images) :
                                    kspaces[p[1]].at[<<p[2], 0>>].row = r}) = 1

C1_Witness ==
    /\ DividesRows
    /\ PartitionFinished
    /\ number_of_images >= 2
    /\ Rows \div number_of_images >= 2

\* C8: when the image count does not divide the row count, get_images raises
\* before any Fourier transform is attempted and returns nothing.
C8_FailsBeforeFft ==
    (number_of_images >= 1 /\ Rows % number_of_images # 0) =>
        /\ fft2_calls = 0
        /\ pc # "returned"

\* C9: for every valid input with k-spaces of P >= 1 rows and F >= 1 columns
\* get_images completes, and the images it returns have the k-spaces' shape,
\* position (i, j) holding the magnitude of the shifted spectrum at the
\* position given by flipping both axes and transposing.
C9_CompletesForEveryShape ==
    (DividesRows /\ Rows \div number_of_images >= 1) =>
        /\ pc # "raised"
        /\ pc = "returned" =>
            \A k \in Range(number_of_images) :
                /\ images[k].shape = kspaces[k].shape
                /\ \A p \in Idx(images[k].shape) :
                       images[k].at[p] =
                           Abs(Transpose(Flip(FftShift(Fft2(k, kspaces[k]))))).at[p]

\* -------------------------------------------------------- reorder_forT1IR
\* Image number m of a stack of images of the given shape; its cells name
\* the image they come from.
InputImage(m, shape) ==
    Array2(shape, LAMBDA a, b : [img |-> m, i |-> a, j |-> b])

GIIdle ==
    /\ echoes = <<>>
    /\ kspaces = <<>>
    /\ kspace_no = 0
    /\ fft2_calls = 0

ROInit ==
    /\ GIIdle
    /\ CMIdle
    /\ TMIdle
    /\ MNIdle
    /\ pc = "reorder_forT1IR"
    /\ raised = "none"
    /\ \E n \in 0 .. MaxStack, h \in 1 .. MaxWidth, w \in 1 .. MaxWidth :
           images = [m \in Range(n) |-> InputImage(m, <<h, w>>)]
    /\ number_of_images \in 0 .. MaxStack
    /\ nI \in 0 .. MaxTI
    /\ grid = <<>>

StackLen(stack) == Cardinality(DOMAIN stack)

\* np.reshape(images, (a, b, H, W)): the stack viewed as a rows x b grid of
\* images in C order.
AsGrid(stack, a, b) ==
    Array2(<<a, b>>, LAMBDA t, s : stack[t * b + s])

\* np.reshape back to (N, H, W): the grid flattened in C order.
Flatten(g) ==
    [m \in Range(g.shape[1] * g.shape[2]) |->
        g.at[<<m \div g.shape[2], m % g.shape[2]>>]]

\* Variant of TransposeAxes01: the axes left as they are.
NoTranspose(g) == g

\* line 168: np.transpose(images, (1, 0, 2, 3))
TransposeAxes01(g) == Transpose(g)

\* line 166-167: the reshape to (nI, int(number_of_images/nI), H, W)
ReshapeToGrid ==
    /\ pc = "reorder_forT1IR"
    /\ IF nI = 0
       THEN /\ pc' = "raised"
            /\ raised' = "ZeroDivisionError"
            /\ UNCHANGED grid
       ELSE IF nI * (number_of_images \div nI) # StackLen(images)
       THEN /\ pc' = "raised"
            /\ raised' = "ValueError"
            /\ UNCHANGED grid
       ELSE /\ grid' = AsGrid(images, nI, number_of_images \div nI)
            /\ pc' = "reshaped"
            /\ UNCHANGED raised
    /\ UNCHANGED <<giVars, nI, cmVars, tmVars, mnVars>>

\* line 168
TransposeGrid ==
    /\ pc = "reshaped"
    /\ grid' = TransposeAxes01(grid)
    /\ pc' = "transposed"
    /\ UNCHANGED <<raised, giVars, nI, cmVars, tmVars, mnVars>>

\* line 169-170: reshape to the original shape and return
ReshapeBack ==
    /\ pc = "transposed"
    /\ images' = Flatten(grid)
    /\ pc' = "returned"
    /\ UNCHANGED <<raised, echoes, number_of_images, kspaces, kspace_no,
                   fft2_calls, roVars, cmVars, tmVars, mnVars>>

RONext ==
    \/ ReshapeToGrid
    \/ TransposeGrid
    \/ ReshapeBack

SpecReorder == ROInit /\ [][RONext]_vars

\* calculate_maps, line 85-88: the images of run i, slice1 = images[a:b]
RunSlab(stack, nE_nI, i) ==
    [t \in Range(nE_nI) |-> stack[nE_nI * i + t]]

\* C2: reorder_forT1IR returns a stack of the same length in which index
\* s*nI + t holds input image t*S + s (S = N / nI), so that run s of
\* calculate_maps holds slice s at every inversion time, in train order.
C2_SliceMajor ==
    pc = "returned" =>
        LET N == StackLen(images)
            S == N \div nI
        IN  /\ DOMAIN images = Range(nI * S)
            /\ \A t \in Range(nI), s \in Range(S) :
                   images[s * nI + t] = InputImage(t * S + s, images[0].shape)
            /\ \A s \in Range(S) :
                   RunSlab(images, nI, s) =
                       [t \in Range(nI) |-> InputImage(t * S + s, images[0].shape)]

C2_Witness ==
    /\ pc = "returned"
    /\ nI >= 2
    /\ StackLen(images) \div nI >= 2
    /\ images[1] # images[0]

\* --------------------------------------------------------- calculate_maps
\* A decimal number m * 10^e, for the constants of the source that are not
\* integers.
Dec(m, e) == [m |-> m, e |-> e]

\* Image number m of the stack handed to calculate_maps: magnitudes that
\* differ from pixel to pixel and from image to image.
SampleImage(m, shape) ==
    Array2(shape, LAMBDA a, b : 10 * (a * shape[2] + b) + ((m + b) % 3))

\* All subsets of S with at most n elements.
RECURSIVE UpTo(_, _)
UpTo(S, n) ==
    IF n = 0 THEN {{}}
    ELSE LET smaller == UpTo(S, n - 1)
         IN  smaller \cup {u \cup {x} : u \in smaller, x \in S}

CMInit ==
    /\ GIIdle
    /\ ROIdle
    /\ TMIdle
    /\ MNIdle
    /\ pc = "calculate_maps"
    /\ raised = "none"
    /\ number_of_images = 0
    /\ function \in {"T1_function", "T2_function"}
    /\ \E nE \in 1 .. MaxTrain, runs \in 0 .. MaxRuns,
          h \in 1 .. MaxMapSide, w \in 1 .. MaxMapSide :
           /\ runs * h * w <= MaxPixels
           /\ T_train = [t \in Range(nE) |-> 100 * (t + 1)]
           /\ images = [m \in Range(runs * nE) |-> SampleImage(m, <<h, w>>)]
           /\ unfittable \in UpTo(Range(runs) \X Range(h) \X Range(w),
                                  MaxUnfittable)
    /\ cm_i = 0
    /\ cm_k = 0
    /\ slice1 = <<>>
    /\ futures = <<>>
    /\ completed = <<>>
    /\ T_list = <<>> /\ Molist = <<>> /\ Clist = <<>>
    /\ T_maps = <<>> /\ Momaps = <<>> /\ Cmaps = <<>>
    /\ executor = "none"

\* line 80
nE_nI == StackLen(T_train)

\* line 83: range(int(images.shape[0] / nE_nI))
RunCount == StackLen(images) \div nE_nI

\* The spatial shape of the images of a slab (slice1.shape[1:]).
SlabShape(slab) == slab[0].shape

\* line 97: points = slice1[:, k, j]
Points(slab, k, j) == [t \in DOMAIN slab |-> slab[t].at[<<k, j>>]]

\* points.max()
MaxOf(points) ==
    CHOOSE v \in {points[t] : t \in DOMAIN points} :
        \A t \in DOMAIN points : points[t] <= v

\* line 99-104: the bounds handed to curve_fit
FitBounds(fn, points) ==
    LET mx == MaxOf(points)
    IN  IF fn = "T1_function"
        THEN << <<Dec(1, -3), Dec(9 * mx, -1), Dec(-(mx + 100), -2), Dec(185, -2)>>,
                <<Dec(7000, 0), Dec(2 * mx + 1, 0), Dec(mx + 100, -2), Dec(205, -2)>> >>
        ELSE << <<Dec(1, -3), Dec(9 * mx, -1), Dec(-(mx + 100), -2)>>,
                <<Dec(4000, 0), Dec(2 * mx + 1, 0), Dec(mx + 100, -2)>> >>

\* line 107-108: the parameters curve_fit returns when it converges.  The
\* regression is left uninterpreted: parameter number n of the fit of fn to
\* (train, points) within the bounds.
CurveFit(fn, train, points, bounds) ==
    [n \in 1 .. Len(bounds[1]) |->
        [fit |-> fn, param |-> n, train |-> train, points |-> points,
         bounds |-> bounds]]

\* Variant of Fallback: Mo taken from the first sample, not the largest.
FallbackFirstSample(fn, points) ==
    IF fn = "T1_function"
    THEN <<Dec(1, -6), points[0], 0, 2>>
    ELSE <<Dec(1, -6), points[0], 0>>

\* line 109-113: the parameters taken when curve_fit raises RuntimeError
Fallback(fn, points) ==
    IF fn = "T1_function"
    THEN <<Dec(1, -6), MaxOf(points), 0, 2>>
    ELSE <<Dec(1, -6), MaxOf(points), 0>>

\* line 96-115: what task(j) returns for row k of run i.  curve_fit raises
\* RuntimeError exactly on the unfittable pixels.
Task(slab, i, k, j) ==
    LET points == Points(slab, k, j)
    IN  IF <<i, k, j>> \in unfittable
        THEN Fallback(function, points)
        ELSE CurveFit(function, T_train, points, FitBounds(function, points))

\* Variant of Gather: the entries in the order the tasks completed.
GatherAsCompleted(done, order) ==
    [j \in DOMAIN done |-> done[order[j]].value]

\* line 118: the list joblib.Parallel returns, one entry per submitted task
\* in the order of submission.
Gather(done, order) == [j \in DOMAIN done |-> done[j].value]

\* result[:, n] of line 121-123 (n counted from 0)
Column(res, n) == [j \in DOMAIN res |-> res[j][n + 1]]

\* line 125-127: np.reshape(np.array(rows), (H, W))
AsMap(rows, shape) == Array2(shape, LAMBDA a, b : rows[a][b])

\* line 83-92: the head of one iteration of the loop over the runs
StartRun ==
    /\ pc = "calculate_maps"
    /\ cm_i < RunCount
    /\ slice1' = RunSlab(images, nE_nI, cm_i)
    /\ T_list' = <<>> /\ Molist' = <<>> /\ Clist' = <<>>
    /\ cm_k' = 0
    /\ pc' = "rows"
    /\ UNCHANGED <<raised, giVars, roVars, cmIn, cm_i, futures, completed,
                   cmMaps, executor, tmVars, mnVars>>

\* line 94, 117-118: the tasks of row k are handed to the worker pool
Dispatch ==
    /\ pc = "rows"
    /\ cm_k < SlabShape(slice1)[1]
    /\ futures' = [j \in Range(SlabShape(slice1)[2]) |-> [state |-> "pending"]]
    /\ completed' = <<>>
    /\ executor' = "alive"
    /\ pc' = "parallel"
    /\ UNCHANGED <<raised, giVars, roVars, cmIn, cmLoop, cmLists, cmMaps,
                   tmVars, mnVars>>

\* One worker finishes task(j) and hands back its own return value.
TaskComplete(j) ==
    /\ pc = "parallel"
    /\ futures[j].state = "pending"
    /\ futures' = [futures EXCEPT ![j] =
                       [state |-> "done", value |-> Task(slice1, cm_i, cm_k, j)]]
    /\ completed' = ListAppend(completed, j)
    /\ UNCHANGED <<pc, raised, giVars, roVars, cmIn, cmLoop, cmLists, cmMaps,
                   executor, tmVars, mnVars>>

\* line 118-123: every task of the row has returned; the row is appended
CollectRow ==
    /\ pc = "parallel"
    /\ \A j \in DOMAIN futures : futures[j].state = "done"
    /\ LET res == Gather(futures, completed)
       IN  /\ T_list' = ListAppend(T_list, Column(res, 0))
           /\ Molist' = ListAppend(Molist, Column(res, 1))
           /\ Clist' = ListAppend(Clist, Column(res, 2))
    /\ cm_k' = cm_k + 1
    /\ pc' = "rows"
    /\ UNCHANGED <<raised, giVars, roVars, cmIn, cm_i, slice1, futures,
                   completed, cmMaps, executor, tmVars, mnVars>>

\* line 125-127: the maps of the run are appended
EndRun ==
    /\ pc = "rows"
    /\ cm_k = SlabShape(slice1)[1]
    /\ T_maps' = ListAppend(T_maps, AsMap(T_list, SlabShape(slice1)))
    /\ Momaps' = ListAppend(Momaps, AsMap(Molist, SlabShape(slice1)))
    /\ Cmaps' = ListAppend(Cmaps, AsMap(Clist, SlabShape(slice1)))
    /\ cm_i' = cm_i + 1
    /\ pc' = "calculate_maps"
    /\ UNCHANGED <<raised, giVars, roVars, cmIn, cm_k, slice1, futures,
                   completed, cmLists, executor, tmVars, mnVars>>

\* line 129-131: the worker pool is shut down and the maps are returned
ReturnMaps ==
    /\ pc = "calculate_maps"
    /\ cm_i = RunCount
    /\ executor' = "shutdown"
    /\ pc' = "returned"
    /\ UNCHANGED <<raised, giVars, roVars, cmIn, cmLoop, futures, completed,
                   cmLists, cmMaps, tmVars, mnVars>>

CMNext ==
    \/ StartRun
    \/ Dispatch
    \/ \E j \in DOMAIN futures : TaskComplete(j)
    \/ CollectRow
    \/ EndRun
    \/ ReturnMaps

SpecMaps == CMInit /\ [][CMNext]_vars

\* ------------------------------------------- calculate_maps: properties
\* The largest of the samples of pixel (k, j) over the images of run r.
MaxSample(r, k, j) ==
    LET samples == {images[nE_nI * r + t].at[<<k, j>>] : t \in Range(nE_nI)}
    IN  CHOOSE v \in samples : \A u \in samples : u <= v

\* The runs whose maps are complete.
FinishedRuns == Range(StackLen(T_maps))

\* C5: a pixel whose regression fails receives exactly the sentinel values
\* (relaxation time 1e-6, Mo = the maximum of its samples, C = 0, and for T1
\* the inversion efficiency 2); the failure never leaves the task, the other
\* pixels keep their own fit and the maps of every run are completed.
C5_SentinelFallback ==
    /\ pc # "raised"
    /\ pc = "parallel" =>
           \A j \in DOMAIN futures :
               (futures[j].state = "done" /\ <<cm_i, cm_k, j>> \in unfittable) =>
                   futures[j].value =
                       IF function = "T1_function"
                       THEN <<Dec(1, -6), MaxSample(cm_i, cm_k, j), 0, 2>>
                       ELSE <<Dec(1, -6), MaxSample(cm_i, cm_k, j), 0>>
    /\ \A r \in FinishedRuns :
           /\ T_maps[r].shape = images[0].shape
           /\ \A p \in Idx(T_maps[r].shape) :
                  IF <<r, p[1], p[2]>> \in unfittable
                  THEN /\ T_maps[r].at[p] = Dec(1, -6)
                       /\ Momaps[r].at[p] = MaxSample(r, p[1], p[2])
                       /\ Cmaps[r].at[p] = 0
                  ELSE LET points == [t \in Range(nE_nI) |->
                                         images[nE_nI * r + t].at[p]]
                           fit == CurveFit(function, T_train, points,
                                           FitBounds(function, points))
                       IN  /\ T_maps[r].at[p] = fit[1]
                           /\ Momaps[r].at[p] = fit[2]
                           /\ Cmaps[r].at[p] = fit[3]
    /\ pc = "returned" => StackLen(T_maps) = RunCount

C5_Witness ==
    /\ pc = "returned"
    /\ \E u \in unfittable :
           /\ T_maps[u[1]].at[<<u[2], u[3]>>] = Dec(1, -6)
           /\ \E p \in Idx(T_maps[u[1]].shape) : <<u[1], p[1], p[2]>> \notin unfittable

\* C6: whatever the order in which the tasks of a row complete, every task
\* hands back its own result only, entry j of the row is the result of the
\* task for column j, and so is position (k, j) of the T, Mo and C maps.
C6_ColumnOrder ==
    /\ pc = "parallel" =>
           \A j \in DOMAIN futures :
               futures[j].state = "done" =>
                   futures[j].value = Task(slice1, cm_i, cm_k, j)
    /\ pc \in {"rows", "parallel"} =>
           \A k \in DOMAIN T_list : \A j \in Range(SlabShape(slice1)[2]) :
               /\ T_list[k][j] = Task(slice1, cm_i, k, j)[1]
               /\ Molist[k][j] = Task(slice1, cm_i, k, j)[2]
               /\ Clist[k][j] = Task(slice1, cm_i, k, j)[3]
    /\ \A r \in FinishedRuns : \A p \in Idx(images[0].shape) :
           LET own == Task(RunSlab(images, nE_nI, r), r, p[1], p[2])
           IN  /\ T_maps[r].at[p] = own[1]
               /\ Momaps[r].at[p] = own[2]
               /\ Cmaps[r].at[p] = own[3]

\* A row has been collected whose tasks completed out of column order.
C6_Witness ==
    /\ pc = "rows"
    /\ StackLen(T_list) >= 1
    /\ StackLen(completed) >= 2
    /\ completed[0] > completed[1]

\* ------------------------------------------------------------ theoret_MRI
\* A requested time: a Python int or float, held in tenths of a millisecond.
IntTime(n) == [kind |-> "int", tenths |-> 10 * n]
FloatTime(tenths) == [kind |-> "float", tenths |-> tenths]

\* The times a caller may request: 1, 1.0, 2.5 and 25.
TimeValues == {IntTime(1), FloatTime(10), FloatTime(25), IntTime(25)}

Digits == <<"0", "1", "2", "3", "4", "5", "6", "7", "8", "9">>

\* str(n) of an int n >= 0
RECURSIVE Str(_)
Str(n) == IF n < 10 THEN Digits[n + 1] ELSE Str(n \div 10) \o Digits[(n % 10) + 1]

\* The text an f-string gives for a requested time: the digits of an int,
\* the shortest repr of a float.
FormatTime(t) ==
    IF t.kind = "int"
    THEN Str(t.tenths \div 10)
    ELSE Str(t.tenths \div 10) \o "." \o Str(t.tenths % 10)

\* line 136-139
Txt(fn) == IF fn = "T1_function" THEN "TI" ELSE "TE"

\* Variant of Filename: the run index left out of the name.
FilenameWithoutSlice(j, fn, t) ==
    "Theoretical_MRI/slice_" \o Txt(fn) \o "_" \o FormatTime(t) \o "ms.png"

\* line 159: the name of the file of run j and requested time t
Filename(j, fn, t) ==
    "Theoretical_MRI/slice_" \o Str(j + 1) \o "_" \o Txt(fn) \o "_"
        \o FormatTime(t) \o "ms.png"

\* exp(-x/T) in thousandths for x in tenths of a millisecond and T in
\* milliseconds, by the Pade approximant 1 / (1 + r + r*r/2), r = x/T.
ExpNeg(x, T) ==
    LET a == x
        b == 10 * T
    IN  (2000 * b * b) \div (2 * b * b + 2 * a * b + a * a)

AbsInt(v) == IF v < 0 THEN -v ELSE v

\* line 63-66: the signal of every pixel, held in thousandths
T1_function(x, T1, Mo, C, a) ==
    Array2(Mo.shape, LAMBDA p, q :
        [signal |-> AbsInt(Mo.at[<<p, q>>] * (1000 - a * ExpNeg(x, T1.at[<<p, q>>]))
                           + 1000 * C.at[<<p, q>>])])

\* line 69-72
T2_function(x, T2, Mo, C) ==
    Array2(Mo.shape, LAMBDA p, q :
        [signal |-> Mo.at[<<p, q>>] * ExpNeg(x, T2.at[<<p, q>>])
                        + 1000 * C.at[<<p, q>>]])

\* line 151-154: the image of requested time t for one map triple
ModelImage(fn, t, Tmap, Momap, Cmap) ==
    IF fn = "T1_function"
    THEN T1_function(t.tenths, Tmap, Momap, Cmap, 2)
    ELSE T2_function(t.tenths, Tmap, Momap, Cmap)

\* SI_image.max()
MaxCell(a) ==
    CHOOSE v \in {a.at[p].signal : p \in Idx(a.shape)} :
        \A p \in Idx(a.shape) : a.at[p].signal <= v

\* line 158: the array times 255.0 / its maximum; a cell becomes a grey
\* level, held in hundredths.  A maximum of 0 gives the factor inf, and
\* 0 * inf is nan.
Rescaled(a) ==
    LET mx == MaxCell(a)
    IN  Array2(a.shape, LAMBDA p, q :
            IF mx = 0 THEN [nan |-> TRUE]
            ELSE [grey |-> (a.at[<<p, q>>].signal * 25500) \div mx])

\* Variant of ScaleInPlace: SI_image = SI_image * ... makes a new object and
\* rebinds the name to it.
ScaleIntoNewObject(h, ref) ==
    [heap |-> ListAppend(h, Rescaled(h[ref])), ref |-> StackLen(h)]

\* line 158: SI_image *= ... changes the object SI_image names; the name
\* keeps naming that object.
ScaleInPlace(h, ref) ==
    [heap |-> [h EXCEPT ![ref] = Rescaled(h[ref])], ref |-> ref]

\* Variant of LoopOrder: the loops nested the other way round.
TimesInner(nTimes, nRuns) ==
    [n \in Range(nTimes * nRuns) |-> <<n % nTimes, n \div nTimes>>]

\* line 147-149: the pairs <<i, j>> in the order the double loop visits them
LoopOrder(nTimes, nRuns) ==
    [n \in Range(nTimes * nRuns) |-> <<n \div nRuns, n % nRuns>>]

\* plt.imsave: the folder with the file written or overwritten
Saved(folder, name, arr) ==
    [f \in DOMAIN folder \cup {name} |-> IF f = name THEN arr ELSE folder[f]]

\* A map of one row holding the given values.
RowMap(values) == Array2(<<1, Len(values)>>, LAMBDA p, q : values[q + 1])

\* The map triples (T in ms, Mo, C) a run may come with.
MapChoices ==
    { [T |-> RowMap(<<10, 20>>), Mo |-> RowMap(<<4, 8>>), C |-> RowMap(<<0, 1>>)],
      [T |-> RowMap(<<5, 5>>),   Mo |-> RowMap(<<6, 2>>), C |-> RowMap(<<1, 0>>)],
      [T |-> RowMap(<<1, 1>>),   Mo |-> RowMap(<<0, 0>>), C |-> RowMap(<<0, 0>>)] }

\* What the output folder may hold before the call.
Residues ==
    { <<>>,
      [f \in {"Theoretical_MRI/slice_9_TE_7ms.png"} |->
          RowMap(<<[grey |-> 0], [grey |-> 25500]>>)] }

\* The maps are objects 3j, 3j+1, 3j+2 of the heap; the lists hold references.
TMInit ==
    /\ GIIdle /\ number_of_images = 0 /\ images = <<>>
    /\ ROIdle
    /\ MNIdle
    /\ pc = "theoret_MRI"
    /\ raised = "none"
    /\ function \in {"T1_function", "T2_function"}
    /\ T_train = <<>> /\ unfittable = {}
    /\ cm_i = 0 /\ cm_k = 0 /\ slice1 = <<>>
    /\ futures = <<>> /\ completed = <<>>
    /\ T_list = <<>> /\ Molist = <<>> /\ Clist = <<>>
    /\ executor = "shutdown"
    /\ \E runs \in 0 .. MaxRuns :
           /\ \E choice \in [Range(runs) -> MapChoices] :
                  heap = [o \in Range(3 * runs) |->
                             IF o % 3 = 0 THEN choice[o \div 3].T
                             ELSE IF o % 3 = 1 THEN choice[o \div 3].Mo
                             ELSE choice[o \div 3].C]
           /\ T_maps = [j \in Range(runs) |-> 3 * j]
           /\ Momaps = [j \in Range(runs) |-> 3 * j + 1]
           /\ Cmaps = [j \in Range(runs) |-> 3 * j + 2]
    /\ \E n \in 0 .. MaxWish : T_wish \in [Range(n) -> TimeValues]
    /\ TheoretImgs = <<>>
    /\ files \in Residues
    /\ tm_n = 0

\* line 141-144: the list is created, the output folder removed and recreated
ClearFolder ==
    /\ pc = "theoret_MRI"
    /\ TheoretImgs' = <<>>
    /\ files' = <<>>
    /\ tm_n' = 0
    /\ pc' = "synthesis"
    /\ UNCHANGED <<raised, giVars, roVars, cmVars, T_wish, heap, mnVars>>

\* line 151-160: one iteration of the double loop: the image is computed
\* into a new object, the object is appended, rescaled and saved
SynthesizeOne ==
    /\ pc = "synthesis"
    /\ tm_n < StackLen(T_wish) * StackLen(Momaps)
    /\ LET ij == LoopOrder(StackLen(T_wish), StackLen(Momaps))[tm_n]
           i == ij[1]
           j == ij[2]
           SI_image == StackLen(heap)
           made == ListAppend(heap, ModelImage(function, T_wish[i],
                       heap[T_maps[j]], heap[Momaps[j]], heap[Cmaps[j]]))
           scaled == ScaleInPlace(made, SI_image)
       IN  /\ TheoretImgs' = ListAppend(TheoretImgs, SI_image)
           /\ heap' = scaled.heap
           /\ files' = Saved(files, Filename(j, function, T_wish[i]),
                             scaled.heap[scaled.ref])
    /\ tm_n' = tm_n + 1
    /\ UNCHANGED <<pc, raised, giVars, roVars, cmVars, T_wish, mnVars>>

\* line 162: return TheoretImgs
ReturnImgs ==
    /\ pc = "synthesis"
    /\ tm_n = StackLen(T_wish) * StackLen(Momaps)
    /\ pc' = "returned"
    /\ UNCHANGED <<raised, giVars, roVars, cmVars, tmVars, mnVars>>

TMNext ==
    \/ ClearFolder
    \/ SynthesizeOne
    \/ ReturnImgs

SpecSynth == TMInit /\ [][TMNext]_vars

\* --------------------------------------------- theoret_MRI: properties
NumTimes == StackLen(T_wish)
NumRuns == StackLen(Momaps)

\* The image the model gives for requested time number i and run j.
RawImage(i, j) ==
    ModelImage(function, T_wish[i], heap[T_maps[j]], heap[Momaps[j]],
               heap[Cmaps[j]])

\* C3: theoret_MRI returns len(T_wish) * numberOfRuns images, the one at
\* position i*numberOfRuns + j being that of requested time i and run j.
C3_OuterTimesInnerRuns ==
    pc = "returned" =>
        /\ StackLen(TheoretImgs) = NumTimes * NumRuns
        /\ \A i \in Range(NumTimes), j \in Range(NumRuns) :
               heap[TheoretImgs[i * NumRuns + j]] = Rescaled(RawImage(i, j))

C3_Witness ==
    /\ pc = "returned"
    /\ NumTimes >= 2
    /\ NumRuns >= 2
    /\ heap[TheoretImgs[1]] # heap[TheoretImgs[NumRuns]]

\* C4 as claimed: no two (requested time, run) pairs of a call share a file
\* name, so the folder holds len(T_wish) * numberOfRuns files after the call.
C4_OneFilePerPair ==
    pc = "returned" =>
        Cardinality(DOMAIN files) = NumTimes * NumRuns

\* C4 as amended: two pairs share a file name exactly when they have the
\* same run and the same text of the requested time, so the folder holds
\* (number of distinct time texts) * numberOfRuns files after the call, which
\* is len(T_wish) * numberOfRuns when the requested times are pairwise
\* distinct.
C4_OneFilePerRunAndTimeText ==
    pc = "returned" =>
        LET texts == {FormatTime(T_wish[i]) : i \in Range(NumTimes)}
        IN  /\ Cardinality(DOMAIN files) = Cardinality(texts) * NumRuns
            /\ \A i1, i2 \in Range(NumTimes), j1, j2 \in Range(NumRuns) :
                   (Filename(j1, function, T_wish[i1])
                        = Filename(j2, function, T_wish[i2]))
                   <=> (j1 = j2 /\ FormatTime(T_wish[i1]) = FormatTime(T_wish[i2]))
            /\ (\A i1, i2 \in Range(NumTimes) :
                    i1 # i2 => T_wish[i1].tenths # T_wish[i2].tenths)
               => Cardinality(DOMAIN files) = NumTimes * NumRuns

C4_Witness ==
    /\ pc = "returned"
    /\ NumRuns >= 2
    /\ \E i1, i2 \in Range(NumTimes) : i1 # i2 /\ T_wish[i1] = T_wish[i2]
    /\ Cardinality(DOMAIN files) = NumRuns

\* C10: every image of the returned list is the rescaled image that was
\* saved, not the value of the model, and the maps passed in are unchanged.
C10_ReturnedIsRescaled ==
    /\ \A n \in DOMAIN TheoretImgs :
           LET i == n \div NumRuns
               j == n % NumRuns
           IN  /\ heap[TheoretImgs[n]] = Rescaled(RawImage(i, j))
               /\ files[Filename(j, function, T_wish[i])] = heap[TheoretImgs[n]]
    /\ \A j \in Range(NumRuns) :
           [T |-> heap[T_maps[j]], Mo |-> heap[Momaps[j]], C |-> heap[Cmaps[j]]]
               \in MapChoices

\* A returned image has a cell whose grey level is not the model's value.
C10_Witness ==
    /\ pc = "returned"
    /\ \E n \in DOMAIN TheoretImgs :
           LET kept == heap[TheoretImgs[n]]
               raw == RawImage(n \div NumRuns, n % NumRuns)
           IN  \E p \in Idx(kept.shape) :
                   /\ "grey" \in DOMAIN kept.at[p]
                   /\ kept.at[p].grey * 10 # raw.at[p].signal

\* ------------------------------------------------------------------- main
\* line 41-60 as one call: whether get_images(n, ech) raises, and the stack
\* it returns otherwise.
GetImages(n, ech) ==
    LET shape == <<ech.shape[1] \div n, ech.shape[2]>>
        kspace(k) == BroadcastTo(StridedRows(ech, k, n), shape)
        ft(k) == Abs(Transpose(Flip(FftShift(Fft2(k, kspace(k))))))
    IN  IF n = 0
        THEN [raises |-> "ZeroDivisionError"]
        ELSE IF \E k \in Range(n) :
                    ~Broadcastable(StridedRows(ech, k, n).shape, shape)
        THEN [raises |-> "ValueError"]
        ELSE IF shape[1] = 0 \/ shape[2] = 0
        THEN [raises |-> "ValueError"]
        ELSE IF ~Broadcastable(<<shape[2], shape[1]>>, shape)
        THEN [raises |-> "ValueError"]
        ELSE [raises |-> "none",
              images |-> [k \in Range(n) |-> BroadcastTo(ft(k), shape)]]

\* The steps of get_images end as the call as a whole does.
GetImagesAgrees ==
    LET got == GetImages(number_of_images, echoes)
    IN  /\ pc = "returned" => (got.raises = "none" /\ images = got.images)
        /\ pc = "raised" => raised = got.raises

\* line 165-170 as one call, for arguments that pass the reshape
Reorder(stack, inversions, n) ==
    Flatten(TransposeAxes01(AsGrid(stack, inversions, n \div inversions)))

\* line 14: T_wish = [1, 250, 700, 1200, 3000]
DefaultWish ==
    [i \in Range(5) |-> <<IntTime(1), IntTime(250), IntTime(700),
                          IntTime(1200), IntTime(3000)>>[i + 1]]

\* Variant of Branch: the inversion flag not looked at.
BranchByLayoutOnly(p) ==
    IF p.layout = "sems" THEN "T1"
    ELSE IF p.layout = "mems" THEN "T2"
    ELSE "unsupported"

\* line 188, 222, 252: the acquisition type read off the metadata
Branch(p) ==
    IF p.layout = "sems" /\ p.ir = "y" THEN "T1"
    ELSE IF p.layout = "mems" /\ p.ir = "n" THEN "T2"
    ELSE "unsupported"

\* The file read by ng.agilent.read: the procpar entries, the trace count
\* and the echoes.  The train values are whole numbers in the file's unit.
MNInit ==
    /\ ROIdle
    /\ pc = "main"
    /\ raised = "none"
    /\ \E layout \in {"sems", "mems", "gems"}, ir \in {"y", "n"},
          len \in 1 .. MaxTrain :
           params = [layout |-> layout, ir |-> ir,
                     train |-> [t \in Range(len) |-> t + 1]]
    /\ ntraces \in 1 .. MaxTraces
    /\ \E rows \in 0 .. MaxRows, width \in 1 .. MaxWidth :
           echoes = EchoArray(rows, width)
    /\ glob_var \in 0 .. 2
    /\ T_wish = DefaultWish
    /\ files \in Residues
    /\ number_of_images = 0
    /\ kspaces = <<>> /\ images = <<>> /\ kspace_no = 0 /\ fft2_calls = 0
    /\ T_train = <<>> /\ function = "none" /\ unfittable = {}
    /\ cm_i = 0 /\ cm_k = 0 /\ slice1 = <<>>
    /\ futures = <<>> /\ completed = <<>>
    /\ T_list = <<>> /\ Molist = <<>> /\ Clist = <<>>
    /\ T_maps = <<>> /\ Momaps = <<>> /\ Cmaps = <<>>
    /\ executor = "none"
    /\ TheoretImgs = <<>> /\ heap = <<>> /\ tm_n = 0
    /\ stages = <<>>
    /\ dispatched = 0
    /\ printed = <<>>
    /\ result = "none"

mnFrame == <<kspaces, kspace_no, fft2_calls, roVars, unfittable, cmLoop,
             futures, completed, cmLists, heap, tm_n, params, ntraces,
             glob_var, T_wish>>

\* line 176-185: the globals are dropped and the data set is read
ReadData ==
    /\ pc = "main"
    /\ pc' = "dispatch"
    /\ UNCHANGED <<raised, giVars, cmIn, cmMaps, executor, TheoretImgs, files,
                   stages, dispatched, printed, result, mnFrame>>

\* line 188-197, 222-231, 252-253: the one decision on the acquisition type,
\* with the parameters each branch derives
DispatchAcquisition ==
    /\ pc = "dispatch"
    /\ dispatched' = dispatched + 1
    /\ LET branch == Branch(params)
       IN  \/ /\ branch = "T1"
              /\ function' = "T1_function"
              /\ T_train' = [t \in DOMAIN params.train |-> params.train[t] * 1000]
              /\ number_of_images' = ntraces * StackLen(params.train)
              /\ printed' = printed \o <<"(1/3) Recognised T1-weighted (SEMS-IR) images.",
                                         "(2/3) Calculations in progress - please have patience...">>
              /\ pc' = "call get_images"
              /\ UNCHANGED result
           \/ /\ branch = "T2"
              /\ function' = "T2_function"
              /\ T_train' = params.train
              /\ number_of_images' = ntraces
              /\ printed' = printed \o <<"(1/3) Recognised T2-weighted (MEMS) images.",
                                         "(2/3) Calculations in progress - please have patience...">>
              /\ pc' = "call get_images"
              /\ UNCHANGED result
           \/ /\ branch = "unsupported"
              /\ printed' = Append(printed, "Error: not SEMS-IR nor MEMS data.")
              /\ result' = "None"
              /\ pc' = "returned"
              /\ UNCHANGED <<function, T_train, number_of_images>>
    /\ UNCHANGED <<raised, echoes, images, cmMaps, executor, TheoretImgs, files,
                   stages, mnFrame>>

\* line 200, 234: images = get_images(number_of_images, echoes)
CallGetImages ==
    /\ pc = "call get_images"
    /\ stages' = Append(stages, "get_images")
    /\ LET got == GetImages(number_of_images, echoes)
       IN  IF got.raises # "none"
           THEN /\ raised' = got.raises
                /\ pc' = "raised"
                /\ UNCHANGED images
           ELSE /\ images' = got.images
                /\ pc' = IF function = "T1_function"
                         THEN "call reorder_forT1IR" ELSE "call calculate_maps"
                /\ UNCHANGED raised
    /\ UNCHANGED <<echoes, number_of_images, cmIn, cmMaps, executor,
                   TheoretImgs, files, dispatched, printed, result, mnFrame>>

\* line 204: images = reorder_forT1IR(images, len(TI_train), number_of_images)
CallReorder ==
    /\ pc = "call reorder_forT1IR"
    /\ stages' = Append(stages, "reorder_forT1IR")
    /\ images' = Reorder(images, StackLen(T_train), number_of_images)
    /\ pc' = "call calculate_maps"
    /\ UNCHANGED <<raised, echoes, number_of_images, cmIn, cmMaps, executor,
                   TheoretImgs, files, dispatched, printed, result, mnFrame>>

\* line 208, 238: the maps of calculate_maps, one triple per run; here a map
\* is named by its parameter and its run only.
CallCalculateMaps ==
    /\ pc = "call calculate_maps"
    /\ stages' = Append(stages, "calculate_maps")
    /\ T_maps' = [r \in Range(RunCount) |-> [map |-> "T", run |-> r]]
    /\ Momaps' = [r \in Range(RunCount) |-> [map |-> "Mo", run |-> r]]
    /\ Cmaps' = [r \in Range(RunCount) |-> [map |-> "C", run |-> r]]
    /\ executor' = "shutdown"
    /\ pc' = "call theoret_MRI"
    /\ UNCHANGED <<raised, giVars, cmIn, TheoretImgs, files, dispatched,
                   printed, result, mnFrame>>

\* line 212-213, 242-243: theoret_MRI clears the output folder and saves one
\* image per requested time and run; here an image is named by the pair.
CallTheoretMRI ==
    /\ pc = "call theoret_MRI"
    /\ stages' = Append(stages, "theoret_MRI")
    /\ LET order == LoopOrder(StackLen(T_wish), StackLen(Momaps))
       IN  /\ TheoretImgs' = [n \in DOMAIN order |-> [image |-> order[n]]]
           /\ files' = [f \in {Filename(order[n][2], function, T_wish[order[n][1]]) :
                                  n \in DOMAIN order} |-> "png"]
    /\ printed' = Append(printed, "(3/3) New image(s) saved.")
    /\ pc' = "return"
    /\ UNCHANGED <<raised, giVars, cmIn, cmMaps, executor, dispatched, result,
                   mnFrame>>

\* line 215-219, 245-249: what main returns for the retention level
ReturnByRetention ==
    /\ pc = "return"
    /\ result' = IF glob_var = 1 THEN "TheoretImgs"
                 ELSE IF glob_var = 2 THEN "TheoretImgs, T_maps, Momaps"
                 ELSE "None"
    /\ pc' = "returned"
    /\ UNCHANGED <<raised, giVars, cmIn, cmMaps, executor, TheoretImgs, files,
                   stages, dispatched, printed, mnFrame>>

MNNext ==
    \/ ReadData
    \/ DispatchAcquisition
    \/ CallGetImages
    \/ CallReorder
    \/ CallCalculateMaps
    \/ CallTheoretMRI
    \/ ReturnByRetention

SpecMain == MNInit /\ [][MNNext]_vars

\* ---------------------------------------------------- main: properties
IsPrefix(a, b) == Len(a) <= Len(b) /\ a = SubSeq(b, 1, Len(a))

\* The stages the claim gives for the metadata.
ClaimedStages ==
    IF params.layout = "sems" /\ params.ir = "y"
    THEN <<"get_images", "reorder_forT1IR", "calculate_maps", "theoret_MRI">>
    ELSE IF params.layout = "mems" /\ params.ir = "n"
    THEN <<"get_images", "calculate_maps", "theoret_MRI">>
    ELSE <<>>

\* C7: main decides the acquisition type once, before any stage, and then
\* runs the stages of that type in order, none twice; when the metadata is
\* of neither type no stage runs, no image is produced and the output folder
\* is neither cleared nor written.
C7_LinearPipeline ==
    /\ [](/\ dispatched <= 1
          /\ dispatched = 0 => stages = <<>>
          /\ pc \in {"returned", "raised"} => dispatched = 1
          /\ IsPrefix(stages, ClaimedStages)
          /\ (pc = "returned" /\ raised = "none") => stages = ClaimedStages
          /\ ClaimedStages = <<>> => TheoretImgs = <<>>)
    /\ [][ClaimedStages = <<>> => files' = files]_vars

C7_WitnessT1 ==
    /\ pc = "returned"
    /\ stages = <<"get_images", "reorder_forT1IR", "calculate_maps", "theoret_MRI">>
    /\ files # <<>>

=============================================================================
